---- MODULE Spec2Model ----
(***************************************************************************)
(* Model of the issue-detail screen of the SiteDoc frontend                *)
(* (src/app/(dashboard)/issues/[id]/IssueDetail.tsx): the per-issue live   *)
(* update channel (WebSocket with polling fallback and reconnect backoff)  *)
(* and the merging of server data into the view's local lists.             *)
(*                                                                         *)
(* The WebSocket effect is a closure: every run of the effect has its own  *)
(* pollInterval, reconnectTimeout, reconnectDelay and destroyed, while     *)
(* wsRef belongs to the component and is shared by all runs of the effect. *)
(* eff[i] holds the closure variables of the i-th run of the effect.       *)
(***************************************************************************)
EXTENDS Integers, Sequences, FiniteSets, TLC

\* ------------------------------------------------------------------ bounds
\* Runs of the WebSocket effect in one component (mount, then re-runs).
MaxInst == 3
\* WebSocket objects that exist at once.
MaxSock == 2
\* Saturation point of the count of consecutive reconnect schedulings.
MaxAttempts == 6

\* Chat messages the server comes to hold (their ids are 1..MaxMsg).
MaxMsg == 2
\* Agent actions the server comes to hold (their ids are 1..MaxAct).
MaxAct == 2
\* Issue snapshots the server goes through (versions 0..MaxVer).
MaxVer == 1
\* Requests in flight at once.
MaxHttp == 2
\* Undelivered events per socket.
MaxQueue == 1
\* Distinct access tokens the server hands out (1..MaxTok).
MaxTok == 2
\* Characters in a request path.
MaxPath == 4
\* Minutes of wall-clock time the stall check is followed for.
MaxNow == 48
\* Attachments the issue comes to have (their ids are 1..MaxAtt).
MaxAtt == 2
\* Sites one run of the onboarding wizard creates (by going back to the URL step).
MaxSites == 2
\* Credential requests of one "Save & finish" (the code has up to five).
MaxCreds == 2
\* Credential requests in flight at once.
MaxPending == 3
\* Issues in the list the issues page holds.
MaxIssues == 2
\* Sites the issues belong to (1..MaxSiteIds).
MaxSiteIds == 2
MaxInbox == 6
MaxReq == 3

\* --------------------------------------------------------- program constants
ReconnectFloor == 1000
ReconnectCap == 30000
\* STALL_THRESHOLD_MS and the stall check's period, in minutes.
StallThresholdMin == 45
StallTickMin == 1

Insts == 1..MaxInst
Socks == 1..MaxSock

VARIABLES
    token,      \* localStorage holds sitedoc_token
    wsRef,      \* wsRef.current: 0 is null, else a socket
    sock,       \* sock[s]: the WebSocket objects, [state, owner]
    eff,        \* eff[i]: closure variables of the i-th run of the effect
    cur,        \* number of runs of the effect so far; the latest is cur
    unmounted,  \* the component has been unmounted for good
    srv,        \* the server: [msgs, acts, atts, issue]
    view,       \* the component's state: [messages, actions, issue, loadingInitial, sendingMsg]
    wsq,        \* wsq[s]: events the server has sent on socket s, not yet delivered
    http,       \* requests in flight, each with the response the server computed
    loadResult, \* how the latest settled initial fetch ended: none, ok, failed
    cleared,    \* what cleared the loading flag, and the loadResult at that time
    storage,    \* localStorage's sitedoc_token: 0 is absent, else the token
    cookie,     \* the sitedoc_token cookie: 0 is absent, else the token
    loc,        \* window.location's path
    apiResult,  \* how the latest API call ended: [status, rejected]
    mwResult,   \* the latest request seen at the edge and its response
    agentStatus, \* [active, lastActivity, status]; lastActivity -1 is null
    now,        \* Date.now(), in minutes
    heard,      \* when the latest chat message of an agent arrived; -1 is never
    inbox,      \* the issue's messages as the agent scan of the initial fetch reads them
    ui,         \* the issue screen's buttons: in-progress flags, errors, attachments
    wiz,        \* the site onboarding wizard and its requests in flight
    board,      \* the issues page: [issues, filterSite]
    admin       \* the admin issues page: [issues, filterCol, loading, error, pending, sent]

chanVars == <<token, wsRef, sock, eff, cur, unmounted>>
dataVars == <<srv, view, wsq, http, loadResult, cleared>>
issueVars == <<token, wsRef, sock, eff, cur, unmounted, srv, view, wsq, http, loadResult, cleared>>
authVars == <<storage, cookie, loc, apiResult, mwResult>>
\* The screens other than the sign-in state and the issue detail.
stallVars == <<agentStatus, now, heard, inbox>>
beyondAuth == <<stallVars, ui, wiz, board, admin>>
\* Everything outside the issue-detail screen.
elsewhere == <<authVars, beyondAuth>>
vars == <<issueVars, authVars, beyondAuth>>

Min(a, b) == IF a < b THEN a ELSE b

\* A WebSocket slot not in use (never created, or closed and collected).
FreeSock == [state |-> "free", owner |-> 0]

\* Closure variables of a run of the effect that has not started yet.
NoEff ==
    [ destroyed        |-> FALSE,
      pollInterval     |-> FALSE,
      reconnectTimeout |-> "null",
      timeoutMs        |-> 0,
      reconnectDelay   |-> ReconnectFloor,
      attempts         |-> 0 ]

\* The channel part of the state as one value, so that handlers compose.
Chan == [wsRef |-> wsRef, sock |-> sock, eff |-> eff, cur |-> cur]

\* ------------------------------------------------ the WebSocket effect's closure

\* startPolling(): a no-op while an interval is active.
startPolling(c, i) ==
    IF c.eff[i].pollInterval THEN c
    ELSE [c EXCEPT !.eff[i].pollInterval = TRUE]

\* stopPolling(): clearInterval and pollInterval = null.
stopPolling(c, i) ==
    IF c.eff[i].pollInterval THEN [c EXCEPT !.eff[i].pollInterval = FALSE]
    ELSE c

\* The slot the next `new WebSocket` gets.
NewSock(c) == CHOOSE s \in Socks :
    /\ c.sock[s].state = "free"
    /\ \A r \in Socks : c.sock[r].state = "free" => s <= r

CanCreate(c) == \E s \in Socks : c.sock[s].state = "free"

\* connect(): nothing once destroyed; polling only when there is no token;
\* otherwise a new socket in the connecting state, stored in wsRef.
connect(c, i, tok) ==
    IF c.eff[i].destroyed THEN c
    ELSE IF ~tok THEN startPolling(c, i)
    ELSE LET s == NewSock(c) IN
         [c EXCEPT !.sock[s] = [state |-> "connecting", owner |-> i],
                   !.wsRef = s]

\* connect() creates a socket exactly when it gets this far.
ConnectCreates(c, i, tok) == ~c.eff[i].destroyed /\ tok

\* ws.onopen without the reset of reconnectDelay.
onopenKeepsDelay(c, s) ==
    LET i == c.sock[s].owner
    IN [stopPolling(c, i) EXCEPT !.eff[i].attempts = 0]

\* ws.onopen
onopen(c, s) ==
    LET i == c.sock[s].owner
        c1 == stopPolling(c, i)
    IN [c1 EXCEPT !.eff[i].reconnectDelay = ReconnectFloor,
                  !.eff[i].attempts = 0]

\* ws.onerror
onerror(c, s) == startPolling(c, c.sock[s].owner)

\* ws.onclose scheduling the reconnect with the floor delay.
oncloseFloorDelay(c, s) ==
    LET i  == c.sock[s].owner
        c1 == [c EXCEPT !.wsRef = 0]
    IN IF c1.eff[i].destroyed THEN c1
       ELSE LET c2 == startPolling(c1, i) IN
            [c2 EXCEPT !.eff[i].reconnectTimeout = "pending",
                       !.eff[i].timeoutMs = ReconnectFloor,
                       !.eff[i].attempts = Min(c2.eff[i].attempts + 1, MaxAttempts)]

\* ws.onclose without the startPolling() call.
oncloseNoPolling(c, s) ==
    LET i  == c.sock[s].owner
        c1 == [c EXCEPT !.wsRef = 0]
    IN IF c1.eff[i].destroyed THEN c1
       ELSE [c1 EXCEPT !.eff[i].reconnectTimeout = "pending",
                       !.eff[i].timeoutMs = c1.eff[i].reconnectDelay,
                       !.eff[i].attempts = Min(c1.eff[i].attempts + 1, MaxAttempts)]

\* ws.onclose: wsRef.current = null whichever socket closed; then, unless
\* destroyed, polling and a reconnect timer of reconnectDelay ms.
onclose(c, s) ==
    LET i  == c.sock[s].owner
        c1 == [c EXCEPT !.wsRef = 0]
    IN IF c1.eff[i].destroyed THEN c1
       ELSE LET c2 == startPolling(c1, i) IN
            [c2 EXCEPT !.eff[i].reconnectTimeout = "pending",
                       !.eff[i].timeoutMs = c2.eff[i].reconnectDelay,
                       !.eff[i].attempts = Min(c2.eff[i].attempts + 1, MaxAttempts)]

\* The reconnect timer's callback doubling without the 30 s cap.
reconnectFireNoCap(c, i, tok) ==
    LET c1 == [c EXCEPT !.eff[i].reconnectTimeout = "fired",
                        !.eff[i].timeoutMs = 0,
                        !.eff[i].reconnectDelay = c.eff[i].reconnectDelay * 2]
    IN connect(c1, i, tok)

\* The reconnect timer's callback.
reconnectFire(c, i, tok) ==
    LET c1 == [c EXCEPT !.eff[i].reconnectTimeout = "fired",
                        !.eff[i].timeoutMs = 0,
                        !.eff[i].reconnectDelay =
                            Min(c.eff[i].reconnectDelay * 2, ReconnectCap)]
    IN connect(c1, i, tok)

\* WebSocket.close(): a connecting or open socket starts closing; its close
\* event follows later.
wsClose(c, s) ==
    IF c.sock[s].state \in {"connecting", "open"}
    THEN [c EXCEPT !.sock[s].state = "closing"]
    ELSE c

\* The effect's cleanup. clearTimeout is called on whatever timer the run last
\* scheduled, fired or not. Nothing reads a destroyed run's reconnectDelay or
\* its count of schedulings again (onclose returns first, the timer cannot
\* fire), so the model forgets their values here.
cleanup(c, i) ==
    LET c1 == [c EXCEPT !.eff[i].destroyed = TRUE,
                        !.eff[i].attempts = 0,
                        !.eff[i].reconnectDelay = ReconnectFloor]
        c2 == IF c1.wsRef # 0
              THEN [wsClose(c1, c1.wsRef) EXCEPT !.wsRef = 0]
              ELSE c1
        c3 == IF c2.eff[i].reconnectTimeout # "null"
              THEN [c2 EXCEPT !.eff[i].reconnectTimeout = "cleared",
                              !.eff[i].timeoutMs = 0]
              ELSE c2
    IN stopPolling(c3, i)

\* The effect's body: fresh closure variables, startPolling(), connect().
setup(c, tok) ==
    LET i  == c.cur + 1
        c1 == [c EXCEPT !.cur = i, !.eff[i] = NoEff]
    IN connect(startPolling(c1, i), i, tok)

Set(c) ==
    /\ wsRef' = c.wsRef
    /\ sock'  = c.sock
    /\ eff'   = c.eff
    /\ cur'   = c.cur

Mounted == cur >= 1 /\ ~eff[cur].destroyed /\ ~unmounted

\* ------------------------------------------------------ server data and events

\* The server's message list: ids 1..n in order of creation.
MsgList(n) == [k \in 1..n |-> k]

Event(type, id, status, ver, error) ==
    [type |-> type, id |-> id, status |-> status, ver |-> ver, error |-> error]

\* A request in flight: sent, and once the server has handled it, answered
\* with what the server held at that moment.
Request(kind) ==
    [kind |-> kind, answered |-> FALSE, msgs |-> 0, acts |-> <<>>, atts |-> {},
     issue |-> 0, id |-> 0]

\* prev.find((m) => m.id === id)
HasMessage(msgs, id) == \E k \in 1..Len(msgs) : msgs[k] = id

\* Appending without the check for the id.
addMessageNoDedupe(msgs, id) == Append(msgs, id)

\* setMessages((prev) => prev.find(...) ? prev : [...prev, msg])
addMessage(msgs, id) == IF HasMessage(msgs, id) THEN msgs ELSE Append(msgs, id)

\* prev.findIndex((a) => a.id === id): 0 stands for -1.
findIndex(acts, id) ==
    IF \E k \in 1..Len(acts) : acts[k].id = id
    THEN CHOOSE k \in 1..Len(acts) :
            /\ acts[k].id = id
            /\ \A j \in 1..Len(acts) : acts[j].id = id => k <= j
    ELSE 0

\* The agent_action case appending whatever the list holds.
upsertActionAppends(acts, a) == Append(acts, a)

\* The agent_action case: replace the entry with that id, else append.
upsertAction(acts, a) ==
    LET idx == findIndex(acts, a.id) IN
    IF idx > 0 THEN [acts EXCEPT ![idx] = a] ELSE Append(acts, a)

\* prev.map((a) => a.id === actionId ? { ...a, status } : a)
\* A status change applied to every action of the list.
setActionStatusOfAll(acts, id, status) ==
    [k \in 1..Len(acts) |-> [acts[k] EXCEPT !.status = status]]

\* prev.map((a) => (a.id === actionId ? { ...a, status } : a))
setActionStatus(acts, id, status) ==
    [k \in 1..Len(acts) |->
        IF acts[k].id = id THEN [acts[k] EXCEPT !.status = status] ELSE acts[k]]

\* prev.map((a) => a.id === actionId ? { ...a, status: 'failed', error_detail: errDetail } : a)
setActionFailed(acts, id, errDetail) ==
    [k \in 1..Len(acts) |->
        IF acts[k].id = id
        THEN [acts[k] EXCEPT !.status = "failed", !.error = errDetail]
        ELSE acts[k]]

\* handleWsEvent whose chat_message case leaves the loading flag alone.
handleWsEventKeepsLoading(v, ev) ==
    CASE ev.type = "chat_message" ->
            [v EXCEPT !.messages = addMessage(v.messages, ev.id)]
      [] ev.type = "agent_action" ->
            [v EXCEPT !.actions = upsertAction(v.actions, [id |-> ev.id, status |-> ev.status, error |-> ev.error])]
      [] ev.type = "issue_updated" ->
            [v EXCEPT !.issue = ev.ver]
      [] ev.type = "action_started" ->
            IF ev.id # 0
            THEN [v EXCEPT !.actions = setActionStatus(v.actions, ev.id, "in_progress")]
            ELSE v
      [] ev.type = "action_completed" ->
            IF ev.id # 0
            THEN [v EXCEPT !.actions = setActionStatus(v.actions, ev.id, "completed")]
            ELSE v
      [] ev.type = "action_failed" ->
            IF ev.id # 0
            THEN [v EXCEPT !.actions = setActionFailed(v.actions, ev.id, ev.error)]
            ELSE v
      [] OTHER -> v

\* handleWsEvent: the view after the event.
handleWsEvent(v, ev) ==
    CASE ev.type = "chat_message" ->
            [v EXCEPT !.loadingInitial = FALSE,
                      !.messages = addMessage(v.messages, ev.id)]
      [] ev.type = "agent_action" ->
            [v EXCEPT !.actions = upsertAction(v.actions, [id |-> ev.id, status |-> ev.status, error |-> ev.error])]
      [] ev.type = "issue_updated" ->
            [v EXCEPT !.issue = ev.ver]
      [] ev.type = "action_started" ->
            IF ev.id # 0
            THEN [v EXCEPT !.actions = setActionStatus(v.actions, ev.id, "in_progress")]
            ELSE v
      [] ev.type = "action_completed" ->
            IF ev.id # 0
            THEN [v EXCEPT !.actions = setActionStatus(v.actions, ev.id, "completed")]
            ELSE v
      [] ev.type = "action_failed" ->
            IF ev.id # 0
            THEN [v EXCEPT !.actions = setActionFailed(v.actions, ev.id, ev.error)]
            ELSE v
      [] OTHER -> v

\* The events on which handleWsEvent fetches the issue again.
Refetches(ev) == ev.type \in {"diagnosis_ready", "fix_complete"}

\* The server sends an event on every open socket of this issue.
Emit(q, ev) ==
    [s \in Socks |-> IF sock[s].state = "open" THEN Append(q[s], ev) ELSE q[s]]

CanEmit == \A s \in Socks : sock[s].state = "open" => Len(wsq[s]) < MaxQueue

CanIssue(r) == r \in http \/ Cardinality(http) < MaxHttp

\* A socket that is no longer open delivers nothing more.
DropQueues == wsq' = [s \in Socks |-> IF sock'[s].state = "open" THEN wsq[s] ELSE <<>>]

\* ------------------------------------------------ sign-in state (lib/auth, lib/api)

Tokens == 1..MaxTok

\* The browser's sign-in state as one value.
Auth == [storage |-> storage, cookie |-> cookie, loc |-> loc]

\* Paths are strings over "/", "x" and two letters that stand for the words
\* "dashboard" and "login": <<"/", "d", "x">> is /dashboardx.
PathChars == {"/", "d", "l", "x"}
Paths == {p \in UNION {[1..n -> PathChars] : n \in 1..MaxPath} : p[1] = "/"}
DashboardPath == <<"/", "d">>
LoginPath == <<"/", "l">>

\* String.prototype.startsWith
startsWith(p, q) == Len(p) >= Len(q) /\ SubSeq(p, 1, Len(q)) = q

\* setToken: local storage and the cookie.
setToken(a, tok) == [a EXCEPT !.storage = tok, !.cookie = tok]

\* clearToken: local storage and the cookie.
clearToken(a) == [a EXCEPT !.storage = 0, !.cookie = 0]

\* logout()
logout(a) == [clearToken(a) EXCEPT !.loc = LoginPath]

\* The response interceptor's error branch that clears the token on any status.
responseErrorAnyStatus(a, status) == [a EXCEPT !.storage = 0, !.loc = LoginPath]

\* The response interceptor's error branch; the error is rejected onwards
\* whatever the status. Status 0 is an error without a response.
responseError(a, status) ==
    IF status = 401 THEN [a EXCEPT !.storage = 0, !.loc = LoginPath] ELSE a

ErrorStatuses == {0, 401, 403, 500}

\* A cookie value as the middleware reads it: 0 is no cookie, -1 the empty
\* string, else a token. Only a non-empty string is truthy.
CookieValues == {-1, 0} \cup Tokens
Truthy(v) == v >= 1

NextResponse == [action |-> "next", to |-> <<>>, from |-> <<>>]

\* middleware(request)
middleware(p, ck) ==
    IF startsWith(p, DashboardPath) /\ ~Truthy(ck)
    THEN [action |-> "redirect", to |-> LoginPath, from |-> p]
    ELSE NextResponse

\* config.matcher '/dashboard/:path*': /dashboard and everything under it.
Matches(p) == p = DashboardPath \/ startsWith(p, <<"/", "d", "/">>)

\* The edge running the middleware on every path.
edgeNoMatcher(p, ck) == middleware(p, ck)

\* The edge: the middleware runs on the paths its matcher selects.
edge(p, ck) == IF Matches(p) THEN middleware(p, ck) ELSE NextResponse

\* ------------------------------------------------ the issue screen's buttons

\* The calls behind the buttons, apart from sendMessage.
UserKinds == {"approve", "reject", "transition", "upload", "delete"}

\* The in-progress flag of each call.
FlagOf(kind) ==
    CASE kind = "approve" -> "approvingFix"
      [] kind = "reject" -> "rejectingFix"
      [] kind = "transition" -> "transitioning"
      [] kind = "upload" -> "uploadingFile"
      [] OTHER -> "deletingAttachment"

\* The error state each call reports to.
ErrorOf(kind) ==
    IF kind \in {"upload", "delete"} THEN "attachmentError" ELSE "actionError"

\* The message each catch block sets; transition shows the server's detail
\* when it is a string.
FailureMessage(kind, detail) ==
    CASE kind = "approve" -> "Failed to approve fix. Please try again."
      [] kind = "reject" -> "Failed to reject fix. Please try again."
      [] kind = "transition" -> IF detail # "" THEN detail ELSE "Action failed. Please try again."
      [] kind = "upload" -> "Upload failed. Please try again."
      [] OTHER -> "Delete failed. Please try again."

\* The start of a handler: its flag set (deletingAttachment holds the id),
\* its error emptied.
userStart(u, kind, id) ==
    [u EXCEPT ![FlagOf(kind)] = IF kind = "delete" THEN id ELSE TRUE,
              ![ErrorOf(kind)] = ""]

\* The finally block.
userFinally(u, kind) ==
    [u EXCEPT ![FlagOf(kind)] = IF kind = "delete" THEN 0 ELSE FALSE]

\* The catch block, then the finally block.
userCatch(u, kind, detail) ==
    userFinally([u EXCEPT ![ErrorOf(kind)] = FailureMessage(kind, detail)], kind)

\* The call is in flight.
InProgress(u, kind) ==
    IF kind = "delete" THEN u.deletingAttachment # 0 ELSE u[FlagOf(kind)]

\* ------------------------------------------------ the admin issues page

\* The stage filter's options; "" is All Stages.
AdminFilters == {"", "triage", "done"}

\* The page before its mount effect. The list shown is named by the filter
\* of the response it came from; "none" is the empty list of useState.
AdminInit ==
    [issues |-> "none", filterCol |-> "", loading |-> TRUE, error |-> "",
     pending |-> {}, sent |-> 0]

\* loadIssues(col): the request goes out.
loadIssues(a, col) ==
    [a EXCEPT !.loading = TRUE,
              !.sent = @ + 1,
              !.pending = @ \cup {[col |-> col, n |-> a.sent + 1]}]

\* .then((res) => setIssues(res.data)).finally(() => setLoading(false))
issuesThen(a, req) ==
    [a EXCEPT !.issues = req.col, !.loading = FALSE, !.pending = @ \ {req}]

\* .catch(() => setError('Failed to load issues.')).finally(() => setLoading(false))
issuesCatch(a, req) ==
    [a EXCEPT !.error = "Failed to load issues.", !.loading = FALSE, !.pending = @ \ {req}]

\* ------------------------------------------------ the site onboarding wizard

\* The wizard as it opens: step, form flags, the site created so far (0 is
\* none), and the requests in flight: the site creation, the SSH credential,
\* the credentials of the Promise.all being awaited (batch, -1 when none is
\* awaited), those of a Promise.all that already rejected (orphans), and
\* the health checks, each remembering whether handleMoreCredsNext awaits it.
WizardInit ==
    [ step |-> "url", loading |-> FALSE, error |-> "", siteId |-> 0, method |-> "none",
      create |-> FALSE, ssh |-> FALSE, batch |-> -1, orphans |-> 0,
      health |-> <<>> ]

\* Credential requests that have not settled.
CredPending(w) == (IF w.ssh THEN 1 ELSE 0) + (IF w.batch > 0 THEN w.batch ELSE 0) + w.orphans

\* runHealthCheck up to its request; awaited says whether the caller is
\* handleMoreCredsNext, whose finally block runs after it.
runHealthCheck(w, awaited) ==
    [w EXCEPT !.step = "testing", !.health = Append(w.health, awaited)]

\* A failed step that moves on to the next step all the same.
stepFailedAdvances(w, msg) ==
    [w EXCEPT !.step = "more_creds", !.error = msg, !.loading = FALSE]

\* The catch and finally blocks of a step's handler.
stepFailed(w, msg) == [w EXCEPT !.error = msg, !.loading = FALSE]

\* The error text of a failed step: the server's detail, else the fallback.
StepError(detail, fallback) == IF detail # "" THEN detail ELSE fallback

\* ------------------------------------------------ the issues page's kanban board

\* KANBAN_COLUMNS, in the order of the board.
KANBAN_COLUMNS ==
    << "triage", "ready_for_uat_approval", "todo", "in_progress",
       "ready_for_qa", "in_qa", "ready_for_uat", "done" >>

\* The values of kanban_column: the KanbanColumn type, or null.
KanbanValues ==
    { "triage", "ready_for_uat_approval", "todo", "in_progress", "ready_for_qa",
      "in_qa", "ready_for_uat", "done", "dismissed", "null" }

\* The issue lists the API can return after having returned list l: the
\* server has created an issue, changed one (its column or its site), or
\* deleted the latest. The ids are the positions.
IssueLists(l) ==
    LET Issues == [site : 1..MaxSiteIds, col : KanbanValues] IN
    {Append(l, i) : i \in IF Len(l) < MaxIssues THEN Issues ELSE {}}
        \cup {[l EXCEPT ![k] = i] : k \in 1..Len(l), i \in Issues}
        \cup {SubSeq(l, 1, Len(l) - 1)}

\* i.kanban_column ?? 'triage'
columnOf(i) == IF i.col = "null" THEN "triage" ELSE i.col

AllIds(list) == [k \in 1..Len(list) |-> k]

\* Array.filter is SelectSeq over the ids of the entries.
\* filtered: the issues of the selected site, or all when none is selected.
filtered(b) ==
    IF b.filterSite # 0
    THEN SelectSeq(AllIds(b.issues), LAMBDA k : b.issues[k].site = b.filterSite)
    ELSE AllIds(b.issues)

\* activeIssues: filtered, without the dismissed.
activeIssues(b) ==
    SelectSeq(filtered(b), LAMBDA k : columnOf(b.issues[k]) # "dismissed")

\* grouped(col) comparing kanban_column itself, without the default.
groupedNoDefault(b, col) ==
    SelectSeq(activeIssues(b), LAMBDA k : b.issues[k].col = col)

\* KanbanBoard's grouped(col) over activeIssues.
grouped(b, col) ==
    SelectSeq(activeIssues(b), LAMBDA k : columnOf(b.issues[k]) = col)

\* ------------------------------------------------ agent activity tracking

\* useState's initial agentStatus.
InitialAgentStatus ==
    [active |-> FALSE, role |-> "", sessionKey |-> 0, lastActivity |-> -1, status |-> "idle"]

\* The messages of the scan's tests, by what the scan can tell of them: a
\* user's message and a role-less agent's message (both quoting a session
\* key), an agent's session start, its completion, a message that is both,
\* and any other message of an agent.
MsgKinds == {"user", "norole", "session", "done", "both", "plain"}

\* The k-th message of a response: sessionKey is the match of
\* /session: `([^`]+)`/ (0 is no match), done the completion test.
MsgOf(kind, k) ==
    [ sender_type |-> IF kind = "user" THEN "user" ELSE "agent",
      agent_role  |-> IF kind \in {"user", "norole"} THEN ""
                      ELSE IF k % 2 = 1 THEN "dev" ELSE "qa",
      sessionKey  |-> IF kind \in {"user", "norole", "session", "both"} THEN k ELSE 0,
      done        |-> kind \in {"done", "both"},
      created_at  |-> k ]

\* The last five of all messages, filtered afterwards.
recentAgentMsgsSliceFirst(msgs) ==
    SelectSeq(IF Len(msgs) > 5 THEN SubSeq(msgs, Len(msgs) - 4, Len(msgs)) ELSE msgs,
              LAMBDA m : m.sender_type = "agent" /\ m.agent_role # "")

\* msgsRes.data.filter((m) => m.sender_type === 'agent' && m.agent_role).slice(-5)
recentAgentMsgs(msgs) ==
    LET f == SelectSeq(msgs, LAMBDA m : m.sender_type = "agent" /\ m.agent_role # "")
    IN IF Len(f) > 5 THEN SubSeq(f, Len(f) - 4, Len(f)) ELSE f

\* The loop from index i down to 1: the session message it stops at, or
\* nothing when it meets a completion first or runs out.
RECURSIVE scanFrom(_, _)
scanFrom(recent, i) ==
    IF i < 1 THEN [found |-> FALSE]
    ELSE IF recent[i].sessionKey # 0 THEN [found |-> TRUE, msg |-> recent[i]]
    ELSE IF recent[i].done THEN [found |-> FALSE]
    ELSE scanFrom(recent, i - 1)

\* The agent status after load()'s scan of the messages.
loadScan(a, msgs) ==
    LET recent == recentAgentMsgs(msgs)
        hit    == scanFrom(recent, Len(recent))
    IN IF hit.found
       THEN [active |-> TRUE, role |-> hit.msg.agent_role, sessionKey |-> hit.msg.sessionKey,
             lastActivity |-> hit.msg.created_at, status |-> "working"]
       ELSE a

\* handleWsEvent is a useCallback with no dependencies: the agentStatus it
\* reads is the one of the first render, whatever the state has become.
CapturedAgentStatus == InitialAgentStatus

\* The chat_message case for an agent message that is neither a session
\* start nor a completion: `else if (agentStatus.active)` tests the captured
\* value, the update is applied to the current one.
agentMessage(a, t) ==
    IF CapturedAgentStatus.active THEN [a EXCEPT !.lastActivity = t] ELSE a

\* The stall check flagging at the threshold itself.
stallCheckAtThreshold(a, t) ==
    IF a.active /\ a.lastActivity # -1 /\ t - a.lastActivity >= StallThresholdMin
    THEN [a EXCEPT !.status = "stalled"]
    ELSE a

\* The stall check's interval callback at time t.
stallCheck(a, t) ==
    IF a.active /\ a.lastActivity # -1 /\ t - a.lastActivity > StallThresholdMin
    THEN [a EXCEPT !.status = "stalled"]
    ELSE a

\* ------------------------------------------------------------------ initial state
\* The component has just mounted: the effect has run once.
Fresh == [wsRef |-> 0, sock |-> [s \in Socks |-> FreeSock],
          eff |-> [i \in Insts |-> NoEff], cur |-> 0]

Init ==
    /\ token \in BOOLEAN
    /\ unmounted = FALSE
    /\ LET c == setup(Fresh, token) IN
        /\ wsRef = c.wsRef /\ sock = c.sock /\ eff = c.eff /\ cur = c.cur
    /\ srv = [msgs |-> 0, acts |-> <<>>, atts |-> {}, issue |-> 0]
    /\ view = [messages |-> <<>>, actions |-> <<>>, issue |-> 0,
               loadingInitial |-> TRUE, sendingMsg |-> FALSE]
    /\ wsq = [s \in Socks |-> <<>>]
    /\ http = {Request("load")}
    /\ loadResult = "none"
    /\ cleared = [by |-> "none", after |-> "none"]
    /\ storage = (IF token THEN 1 ELSE 0)
    /\ cookie = storage
    /\ loc = <<"/", "x">>
    /\ apiResult = [status |-> 200, rejected |-> FALSE]
    /\ mwResult = [path |-> <<>>, cookie |-> 0, res |-> NextResponse]
    /\ agentStatus = InitialAgentStatus
    /\ now = 0
    /\ heard = -1
    /\ inbox = <<>>
    /\ wiz = WizardInit
    /\ board = [issues |-> <<>>, filterSite |-> 0]
    /\ admin = loadIssues(AdminInit, "")
    /\ ui = [approvingFix |-> FALSE, rejectingFix |-> FALSE, transitioning |-> FALSE,
             uploadingFile |-> FALSE, deletingAttachment |-> 0,
             actionError |-> "", attachmentError |-> "", attachments |-> {}]

\* The view mounts while logged in.
InitToken == Init /\ token = TRUE

\* ------------------------------------------------------------------ actions

\* The open event of a connecting socket.
WsOpen(s) ==
    /\ sock[s].state = "connecting"
    /\ Set([onopen(Chan, s) EXCEPT !.sock[s].state = "open"])
    /\ DropQueues
    /\ UNCHANGED <<elsewhere, token, unmounted, srv, view, http, loadResult, cleared>>

\* The connection fails or is lost: the error event and then the close event
\* are fired in one task.
WsFail(s) ==
    /\ sock[s].state \in {"connecting", "open", "closing"}
    /\ Set([onclose(onerror(Chan, s), s) EXCEPT !.sock[s] = FreeSock])
    /\ DropQueues
    /\ UNCHANGED <<elsewhere, token, unmounted, srv, view, http, loadResult, cleared>>

\* A clean close: the server closes an open socket, or the closing handshake
\* that close() began completes.
WsClose(s) ==
    /\ sock[s].state \in {"open", "closing"}
    /\ Set([onclose(Chan, s) EXCEPT !.sock[s] = FreeSock])
    /\ DropQueues
    /\ UNCHANGED <<elsewhere, token, unmounted, srv, view, http, loadResult, cleared>>

\* The reconnect timer of run i fires.
ReconnectTimer(i) ==
    /\ eff[i].reconnectTimeout = "pending"
    /\ ConnectCreates(Chan, i, token) => CanCreate(Chan)
    /\ Set(reconnectFire(Chan, i, token))
    /\ DropQueues
    /\ UNCHANGED <<elsewhere, token, unmounted, srv, view, http, loadResult, cleared>>

\* The effect re-runs (its dependencies changed, or a development double
\* mount): cleanup of the current run, then the body again, in one commit.
Rerun ==
    /\ Mounted
    /\ cur < MaxInst
    /\ LET c1 == cleanup(Chan, cur) IN
        /\ ConnectCreates([c1 EXCEPT !.cur = cur + 1], cur + 1, token) => CanCreate(c1)
        /\ Set(setup(c1, token))
    /\ CanIssue(Request("load"))
    /\ http' = http \cup {Request("load")}
    /\ DropQueues
    /\ UNCHANGED <<elsewhere, token, unmounted, srv, view, loadResult, cleared>>

\* The component unmounts: the cleanup of the current run.
Unmount ==
    /\ Mounted
    /\ Set(cleanup(Chan, cur))
    /\ unmounted' = TRUE
    /\ DropQueues
    /\ UNCHANGED <<elsewhere, token, srv, view, http, loadResult, cleared>>

\* The token appears in or disappears from local storage (login or logout,
\* here or in another tab).
TokenChange ==
    /\ token' = ~token
    /\ storage' = IF token THEN 0 ELSE 1
    /\ cookie' = storage'
    /\ UNCHANGED <<loc, apiResult, mwResult, beyondAuth>>
    /\ UNCHANGED <<wsRef, sock, eff, cur, unmounted, srv, view, wsq, http, loadResult, cleared>>

\* A state update of an unmounted component is dropped.
Render(v) == IF unmounted THEN view ELSE v

\* Records the step that turns the loading flag off.
Note(by) ==
    cleared' = IF view.loadingInitial /\ ~view'.loadingInitial
               THEN [by |-> by, after |-> loadResult]
               ELSE cleared

\* load() settles with all three requests answered.
LoadOk(r) ==
    /\ r \in http /\ r.kind = "load" /\ r.answered
    /\ view' = Render([view EXCEPT !.messages = MsgList(r.msgs),
                                   !.actions = r.acts,
                                   !.loadingInitial = FALSE])
    /\ ui' = IF unmounted THEN ui ELSE [ui EXCEPT !.attachments = r.atts]
    /\ agentStatus' = IF unmounted THEN agentStatus ELSE loadScan(agentStatus, inbox)
    /\ http' = http \ {r}
    /\ loadResult' = "ok"
    /\ Note("load")
    /\ UNCHANGED <<admin, authVars, now, heard, inbox, wiz, board, chanVars, srv, wsq>>

\* The three requests of load().
LoadParts == {"messages", "actions", "attachments"}

\* load() clearing the loading flag however it settles.
LoadFailClears(r, which) ==
    /\ r \in http /\ r.kind = "load"
    /\ view' = Render([view EXCEPT !.loadingInitial = FALSE])
    /\ http' = http \ {r}
    /\ loadResult' = "failed"
    /\ Note("load")
    /\ UNCHANGED <<elsewhere, chanVars, srv, wsq>>

\* load() applying the responses of the requests that did not fail.
LoadFailAppliesRest(r, which) ==
    /\ r \in http /\ r.kind = "load"
    /\ view' = Render([view EXCEPT
            !.messages = IF which # "messages" THEN MsgList(r.msgs) ELSE @,
            !.actions = IF which # "actions" THEN r.acts ELSE @])
    /\ ui' = IF which # "attachments" THEN [ui EXCEPT !.attachments = r.atts] ELSE ui
    /\ http' = http \ {r}
    /\ loadResult' = "failed"
    /\ UNCHANGED <<admin, authVars, stallVars, wiz, board, chanVars, srv, wsq, cleared>>

\* One of the three requests of load() fails, whatever became of the other
\* two: Promise.all rejects and the catch block runs.
LoadFail(r, which) ==
    /\ r \in http /\ r.kind = "load"
    /\ http' = http \ {r}
    /\ loadResult' = "failed"
    /\ UNCHANGED <<elsewhere, chanVars, srv, view, wsq, cleared>>

\* A tick of the polling interval of run i: the messages request goes out.
PollTick(i) ==
    /\ eff[i].pollInterval
    /\ CanIssue(Request("pollMsgs"))
    /\ http' = http \cup {Request("pollMsgs")}
    /\ UNCHANGED <<elsewhere, chanVars, srv, view, wsq, loadResult, cleared>>

\* The poll's messages request succeeds: the list is replaced, the loading
\* flag cleared and the issue request goes out.
PollMsgsOk(r) ==
    /\ r \in http /\ r.kind = "pollMsgs" /\ r.answered
    /\ view' = Render([view EXCEPT !.messages = MsgList(r.msgs),
                                   !.loadingInitial = FALSE])
    /\ http' = (http \ {r}) \cup {Request("issue")}
    /\ Note("poll")
    /\ UNCHANGED <<elsewhere, chanVars, srv, wsq, loadResult>>

\* An issue request succeeds (the poll's second request, or the one
\* handleWsEvent sends): setIssue(res.data).
IssueOk(r) ==
    /\ r \in http /\ r.kind = "issue" /\ r.answered
    /\ view' = Render([view EXCEPT !.issue = r.issue])
    /\ http' = http \ {r}
    /\ UNCHANGED <<elsewhere, chanVars, srv, wsq, loadResult, cleared>>

\* A poll or issue request fails: caught silently.
GetFail(r) ==
    /\ r \in http /\ r.kind \in {"pollMsgs", "issue"}
    /\ http' = http \ {r}
    /\ UNCHANGED <<elsewhere, chanVars, srv, view, wsq, loadResult, cleared>>

\* ws.onmessage: the next event of an open socket goes to handleWsEvent.
WsMessage(s) ==
    /\ sock[s].state = "open"
    /\ wsq[s] # <<>>
    /\ LET ev == Head(wsq[s])
           r  == Request("issue")
       IN /\ view' = Render(handleWsEvent(view, ev))
          /\ IF Refetches(ev)
             THEN CanIssue(r) /\ http' = http \cup {r}
             ELSE http' = http
    /\ wsq' = [wsq EXCEPT ![s] = Tail(@)]
    /\ Note("chat")
    /\ UNCHANGED <<elsewhere, chanVars, srv, loadResult>>

\* sendMessage: the POST goes out.
SendMessage ==
    /\ ~unmounted
    /\ ~view.sendingMsg
    /\ CanIssue(Request("post"))
    /\ http' = http \cup {Request("post")}
    /\ view' = [view EXCEPT !.sendingMsg = TRUE]
    /\ UNCHANGED <<elsewhere, chanVars, srv, wsq, loadResult, cleared>>

\* The server handles the POST: it stores the message, announces it on the
\* live channel and answers with it.
SrvPost(r) ==
    /\ r \in http /\ r.kind = "post" /\ ~r.answered
    /\ srv.msgs < MaxMsg
    /\ CanEmit
    /\ LET id == srv.msgs + 1 IN
        /\ srv' = [srv EXCEPT !.msgs = id]
        /\ wsq' = Emit(wsq, Event("chat_message", id, "", 0, ""))
        /\ http' = (http \ {r}) \cup {[r EXCEPT !.answered = TRUE, !.id = id]}
    /\ UNCHANGED <<elsewhere, chanVars, view, loadResult, cleared>>

\* The server answers a GET with what it holds.
SrvAnswer(r) ==
    /\ r \in http /\ r.kind \in {"load", "pollMsgs", "issue"} /\ ~r.answered
    /\ http' = (http \ {r}) \cup
            {CASE r.kind = "load" -> [r EXCEPT !.answered = TRUE, !.msgs = srv.msgs,
                                                 !.acts = srv.acts, !.atts = srv.atts]
               [] r.kind = "pollMsgs" -> [r EXCEPT !.answered = TRUE, !.msgs = srv.msgs]
               [] OTHER -> [r EXCEPT !.answered = TRUE, !.issue = srv.issue]}
    /\ UNCHANGED <<elsewhere, chanVars, srv, view, wsq, loadResult, cleared>>

\* The POST's response arrives.
PostOk(r) ==
    /\ r \in http /\ r.kind = "post" /\ r.answered
    /\ view' = Render([view EXCEPT !.messages = addMessage(view.messages, r.id),
                                   !.sendingMsg = FALSE])
    /\ http' = http \ {r}
    /\ UNCHANGED <<elsewhere, chanVars, srv, wsq, loadResult, cleared>>

\* The POST fails, or its response is lost.
PostFail(r) ==
    /\ r \in http /\ r.kind = "post"
    /\ view' = Render([view EXCEPT !.sendingMsg = FALSE])
    /\ http' = http \ {r}
    /\ UNCHANGED <<elsewhere, chanVars, srv, wsq, loadResult, cleared>>

\* An agent posts a chat message.
SrvMessage ==
    /\ srv.msgs < MaxMsg
    /\ CanEmit
    /\ srv' = [srv EXCEPT !.msgs = @ + 1]
    /\ wsq' = Emit(wsq, Event("chat_message", srv.msgs + 1, "", 0, ""))
    /\ UNCHANGED <<elsewhere, chanVars, view, http, loadResult, cleared>>

\* A message of the given kind is written to the issue before the initial
\* fetch is answered.
SrvSays(kind) ==
    /\ Len(inbox) < MaxInbox
    /\ \E r \in http : r.kind = "load" /\ ~r.answered
    /\ inbox' = Append(inbox, MsgOf(kind, Len(inbox) + 1))
    /\ UNCHANGED <<admin, agentStatus, now, heard, issueVars, authVars, ui, wiz, board>>

\* A file is attached to the issue from another session.
SrvAttachment(a) ==
    /\ a \notin srv.atts
    /\ srv' = [srv EXCEPT !.atts = @ \cup {a}]
    /\ UNCHANGED <<elsewhere, chanVars, view, wsq, http, loadResult, cleared>>

\* An agent records a new action.
SrvAction ==
    /\ Len(srv.acts) < MaxAct
    /\ CanEmit
    /\ LET a == [id |-> Len(srv.acts) + 1, status |-> "pending", error |-> ""] IN
        /\ srv' = [srv EXCEPT !.acts = Append(@, a)]
        /\ wsq' = Emit(wsq, Event("agent_action", a.id, a.status, 0, ""))
    /\ UNCHANGED <<elsewhere, chanVars, view, http, loadResult, cleared>>

\* The status an action may move to.
NextStatus(st) ==
    CASE st = "pending" -> {"in_progress"}
      [] st = "in_progress" -> {"completed", "failed"}
      [] OTHER -> {}

\* The event type that announces a status by the action's id alone.
StatusEvent(st) ==
    CASE st = "in_progress" -> "action_started"
      [] st = "completed" -> "action_completed"
      [] OTHER -> "action_failed"

\* The error detail of a failed action; "" is none.
ErrorDetails == {"", "timeout"}

\* An action changes status; the server announces it with the whole action,
\* with the id alone, or with an event that lacks the id.
SrvActionStep(k, form, detail) ==
    /\ k \in 1..Len(srv.acts)
    /\ CanEmit
    /\ \E st \in NextStatus(srv.acts[k].status) :
        /\ detail # "" => st = "failed"
        /\ srv' = [srv EXCEPT !.acts[k].status = st, !.acts[k].error = detail]
        /\ wsq' = Emit(wsq,
                CASE form = "action" -> Event("agent_action", k, st, 0, detail)
                  [] form = "id" -> Event(StatusEvent(st), k, "", 0, detail)
                  [] OTHER -> Event(StatusEvent(st), 0, "", 0, detail))
    /\ UNCHANGED <<elsewhere, chanVars, view, http, loadResult, cleared>>

\* The issue changes; the server announces it with the new snapshot or with
\* an event that makes the client fetch it.
SrvIssue(type) ==
    /\ srv.issue < MaxVer
    /\ CanEmit
    /\ srv' = [srv EXCEPT !.issue = @ + 1]
    /\ wsq' = Emit(wsq, Event(type, 0, "", IF type = "issue_updated" THEN srv.issue + 1 ELSE 0, ""))
    /\ UNCHANGED <<elsewhere, chanVars, view, http, loadResult, cleared>>


\* ------------------------------------------------------ sign-in actions

SetAuth(a) ==
    /\ storage' = a.storage
    /\ cookie' = a.cookie
    /\ loc' = a.loc
    /\ token' = (a.storage # 0)

\* login() or register(): the POST succeeds and the token it returns is stored.
LoginOk(tok) ==
    /\ SetAuth(setToken(Auth, tok))
    /\ apiResult' = [status |-> 200, rejected |-> FALSE]
    /\ UNCHANGED <<mwResult, beyondAuth>>
    /\ UNCHANGED <<wsRef, sock, eff, cur, unmounted, srv, view, wsq, http, loadResult, cleared>>

\* logout()
Logout ==
    /\ SetAuth(logout(Auth))
    /\ UNCHANGED <<apiResult, mwResult, beyondAuth>>
    /\ UNCHANGED <<wsRef, sock, eff, cur, unmounted, srv, view, wsq, http, loadResult, cleared>>

\* Any API call (login and register included) succeeds.
ApiOk ==
    /\ apiResult' = [status |-> 200, rejected |-> FALSE]
    /\ UNCHANGED <<storage, cookie, loc, mwResult, beyondAuth, issueVars>>

\* Any API call (login and register included) fails with this status: the
\* response interceptor runs and rejects.
ApiError(status) ==
    /\ SetAuth(responseError(Auth, status))
    /\ apiResult' = [status |-> status, rejected |-> TRUE]
    /\ UNCHANGED <<mwResult, beyondAuth>>
    /\ UNCHANGED <<wsRef, sock, eff, cur, unmounted, srv, view, wsq, http, loadResult, cleared>>

\* The cookie reaches its max-age of seven days.
CookieExpires ==
    /\ cookie # 0
    /\ cookie' = 0
    /\ UNCHANGED <<storage, loc, apiResult, mwResult, beyondAuth, issueVars>>

\* A request for path p carrying cookie value ck reaches the edge.
EdgeRequest(p, ck) ==
    /\ mwResult' = [path |-> p, cookie |-> ck, res |-> edge(p, ck)]
    /\ UNCHANGED <<storage, cookie, loc, apiResult, beyondAuth, issueVars>>

\* The browser navigates to path p with the cookie it holds.
Navigate(p) ==
    /\ mwResult' = [path |-> p, cookie |-> cookie, res |-> edge(p, cookie)]
    /\ loc' = IF mwResult'.res.action = "redirect" THEN mwResult'.res.to ELSE p
    /\ UNCHANGED <<storage, cookie, apiResult, beyondAuth, issueVars>>

\* ------------------------------------------------------ button actions

\* The user presses a button: approve, reject, a stage transition, an upload,
\* or the delete of attachment id.
UserStart(kind, id) ==
    /\ ~unmounted
    /\ ~InProgress(ui, kind)
    /\ kind = "delete" => id \in ui.attachments
    /\ kind = "upload" => Cardinality(ui.attachments) < MaxAtt
    /\ ui' = userStart(ui, kind, id)
    /\ UNCHANGED <<admin, issueVars, authVars, stallVars, wiz, board>>

\* The call succeeds: the issue or the attachment list is updated from the
\* response, then the finally block.
UserOk(kind) ==
    /\ InProgress(ui, kind)
    /\ ui' = userFinally(
                CASE kind = "upload" ->
                        [ui EXCEPT !.attachments = @ \cup
                            {CHOOSE a \in 1..MaxAtt : a \notin ui.attachments /\
                                \A b \in 1..MaxAtt : b \notin ui.attachments => a <= b}]
                  [] kind = "delete" ->
                        [ui EXCEPT !.attachments = @ \ {ui.deletingAttachment}]
                  [] OTHER -> ui, kind)
    /\ IF kind \in {"approve", "reject", "transition"}
       THEN /\ srv' = [srv EXCEPT !.issue = Min(srv.issue + 1, MaxVer)]
            /\ view' = Render([view EXCEPT !.issue = srv'.issue])
       ELSE /\ srv' = [srv EXCEPT !.atts = (@ \cup ui'.attachments) \ (ui.attachments \ ui'.attachments)]
            /\ UNCHANGED view
    /\ UNCHANGED <<admin, chanVars, wsq, http, loadResult, cleared, authVars, stallVars, wiz, board>>

\* The call fails; detail is the server's detail string, if any.
UserFail(kind, detail) ==
    /\ InProgress(ui, kind)
    /\ ui' = userCatch(ui, kind, detail)
    /\ UNCHANGED <<admin, issueVars, authVars, stallVars, wiz, board>>

\* ------------------------------------------------------ wizard actions

WizFrame == UNCHANGED <<admin, issueVars, authVars, stallVars, ui, board>>

\* handleUrlNext: an empty URL is refused, an unparsable one throws before
\* anything is set but the error, a good one sends the site creation.
UrlNext(input) ==
    /\ wiz.step = "url" /\ ~wiz.loading
    /\ input = "ok" => wiz.siteId < MaxSites
    /\ wiz' = CASE input = "empty" -> [wiz EXCEPT !.error = "URL is required"]
                [] input = "invalid" -> [wiz EXCEPT !.error = ""]
                [] OTHER -> [wiz EXCEPT !.error = "", !.loading = TRUE, !.create = TRUE]
    /\ WizFrame

\* The site creation succeeds.
CreateOk ==
    /\ wiz.create
    /\ wiz' = [wiz EXCEPT !.create = FALSE, !.siteId = @ + 1,
                          !.step = "method", !.loading = FALSE]
    /\ WizFrame

\* The site creation fails.
CreateFail(detail) ==
    /\ wiz.create
    /\ wiz' = [stepFailed(wiz, StepError(detail, "Could not create site. Check the URL and try again."))
                 EXCEPT !.create = FALSE]
    /\ WizFrame

\* The method step's buttons.
ChooseMethod(m) ==
    /\ wiz.step = "method"
    /\ wiz' = [wiz EXCEPT !.method = m, !.step = m]
    /\ WizFrame

\* The Back buttons, none of which is disabled while a request is in flight.
Back ==
    /\ wiz.step \in {"method", "ssh", "plugin", "more_creds"}
    /\ wiz' = [wiz EXCEPT !.step =
                    CASE wiz.step = "method" -> "url"
                      [] wiz.step \in {"ssh", "plugin"} -> "method"
                      [] OTHER -> IF wiz.method = "ssh" THEN "ssh" ELSE "plugin"]
    /\ WizFrame

\* handleSSHNext: a missing field is refused, else the SSH credential is sent.
SSHNext(filled) ==
    /\ wiz.step = "ssh" /\ ~wiz.loading
    /\ filled => CredPending(wiz) < MaxPending
    /\ wiz' = IF filled
              THEN [wiz EXCEPT !.error = "", !.loading = TRUE, !.ssh = TRUE]
              ELSE [wiz EXCEPT !.error = "All SSH fields are required"]
    /\ WizFrame

\* The SSH credential is saved.
SSHOk ==
    /\ wiz.ssh
    /\ wiz' = [wiz EXCEPT !.ssh = FALSE, !.step = "more_creds", !.loading = FALSE]
    /\ WizFrame

\* Saving the SSH credential fails.
SSHFail(detail) ==
    /\ wiz.ssh
    /\ wiz' = [stepFailed(wiz, StepError(detail, "Could not save credentials")) EXCEPT !.ssh = FALSE]
    /\ WizFrame

\* handlePluginSkip
PluginSkip ==
    /\ wiz.step = "plugin" /\ ~wiz.loading
    /\ wiz' = [wiz EXCEPT !.step = "more_creds"]
    /\ WizFrame

\* handleMoreCredsNext up to its await: n credential requests are sent.
MoreCredsNext(n) ==
    /\ wiz.step = "more_creds" /\ ~wiz.loading
    /\ CredPending(wiz) + n <= MaxPending
    /\ wiz' = [wiz EXCEPT !.error = "", !.loading = TRUE, !.batch = n]
    /\ WizFrame

\* One request of the awaited Promise.all is saved.
CredOk ==
    /\ wiz.batch > 0
    /\ wiz' = [wiz EXCEPT !.batch = @ - 1]
    /\ WizFrame

\* Promise.all resolves: the testing step and the health check.
BatchDone ==
    /\ wiz.batch = 0
    /\ wiz' = runHealthCheck([wiz EXCEPT !.batch = -1], TRUE)
    /\ WizFrame

\* One request of the awaited Promise.all fails: Promise.all rejects at
\* once, while the other requests stay in flight.
CredFail(detail) ==
    /\ wiz.batch > 0
    /\ wiz' = [stepFailed(wiz, StepError(detail, "Could not save some credentials"))
                 EXCEPT !.batch = -1, !.orphans = @ + wiz.batch - 1]
    /\ WizFrame

\* A request of a rejected Promise.all settles, either way.
OrphanSettles ==
    /\ wiz.orphans > 0
    /\ wiz' = [wiz EXCEPT !.orphans = @ - 1]
    /\ WizFrame

\* "Skip - add credentials later", which is never disabled.
Skip ==
    /\ wiz.step = "more_creds"
    /\ Len(wiz.health) < 2
    /\ wiz' = runHealthCheck(wiz, FALSE)
    /\ WizFrame

\* The oldest health check settles, either way, and its 1.8 s pause ends:
\* the done step, and handleMoreCredsNext's finally block if it awaited.
HealthSettles ==
    /\ wiz.health # <<>>
    /\ wiz' = [wiz EXCEPT !.health = Tail(@), !.step = "done",
                          !.loading = IF wiz.health[1] THEN FALSE ELSE @]
    /\ WizFrame

\* ------------------------------------------------------ issues page actions

\* The initial fetch or a poll of /api/v1/issues answers.
IssuesLoaded(list) ==
    /\ board' = [board EXCEPT !.issues = list]
    /\ UNCHANGED <<admin, issueVars, authVars, stallVars, ui, wiz>>

\* The site filter is changed; 0 is "all sites".
SetFilterSite(s) ==
    /\ board' = [board EXCEPT !.filterSite = s]
    /\ UNCHANGED <<admin, issueVars, authVars, stallVars, ui, wiz>>

\* ------------------------------------------------------ admin issues page actions

AdminFrame == UNCHANGED <<issueVars, authVars, stallVars, ui, wiz, board>>

\* The filter select's onChange.
AdminSelect(col) ==
    /\ admin.sent < MaxReq
    /\ admin' = loadIssues([admin EXCEPT !.filterCol = col], col)
    /\ AdminFrame

\* A list request is answered.
AdminIssuesOk(req) ==
    /\ req \in admin.pending
    /\ admin' = issuesThen(admin, req)
    /\ AdminFrame

\* A list request fails.
AdminIssuesFail(req) ==
    /\ req \in admin.pending
    /\ admin' = issuesCatch(admin, req)
    /\ AdminFrame

\* ------------------------------------------------------ agent activity actions

\* A minute passes and the stall check's interval fires.
StallTick ==
    /\ now + StallTickMin <= MaxNow
    /\ now' = now + StallTickMin
    /\ agentStatus' = stallCheck(agentStatus, now')
    /\ UNCHANGED <<admin, heard, inbox, issueVars, authVars, ui, wiz, board>>

\* A chat message of an agent that carries a session key arrives.
AgentSession ==
    /\ agentStatus' = [active |-> TRUE, role |-> "dev", sessionKey |-> 1,
                       lastActivity |-> now, status |-> "working"]
    /\ heard' = now
    /\ UNCHANGED <<admin, now, inbox, issueVars, authVars, ui, wiz, board>>

\* The initial fetch finds a session message created at time t.
AgentFound(t) ==
    /\ agentStatus' = loadScan(agentStatus, <<[MsgOf("session", 1) EXCEPT !.created_at = t]>>)
    /\ UNCHANGED <<admin, now, heard, inbox, issueVars, authVars, ui, wiz, board>>

\* A completion message of an agent arrives.
AgentDone ==
    /\ agentStatus' = [agentStatus EXCEPT !.active = FALSE, !.status = "idle",
                                          !.lastActivity = now]
    /\ heard' = now
    /\ UNCHANGED <<admin, now, inbox, issueVars, authVars, ui, wiz, board>>

\* Another chat message of an agent arrives.
AgentMessage ==
    /\ agentStatus' = agentMessage(agentStatus, now)
    /\ heard' = now
    /\ UNCHANGED <<admin, now, inbox, issueVars, authVars, ui, wiz, board>>

\* The live channel of one run of the effect: its sockets and its timer.
SocketNext ==
    \/ \E s \in Socks : WsOpen(s)
    \/ \E s \in Socks : WsFail(s)
    \/ \E s \in Socks : WsClose(s)
    \/ \E i \in Insts : ReconnectTimer(i)

\* The effect's life cycle and the token.
LifeNext ==
    \/ Rerun
    \/ Unmount
    \/ TokenChange

\* Requests and their responses.
HttpNext ==
    \/ \E r \in http : LoadOk(r)
    \/ \E r \in http, which \in LoadParts : LoadFail(r, which)
    \/ \E i \in Insts : PollTick(i)
    \/ \E r \in http : PollMsgsOk(r)
    \/ \E r \in http : IssueOk(r)
    \/ \E r \in http : GetFail(r)
    \/ \E r \in http : SrvAnswer(r)

\* The chat: messages sent by the user and by agents.
ChatNext ==
    \/ SendMessage
    \/ \E r \in http : SrvPost(r)
    \/ \E r \in http : PostOk(r)
    \/ \E r \in http : PostFail(r)
    \/ SrvMessage

\* The action log and the issue snapshot.
ActionNext ==
    \/ SrvAction
    \/ \E k \in 1..MaxAct, form \in {"action", "id"} : SrvActionStep(k, form, "")

\* The issue moves on: announced with its snapshot, or with fix_complete
\* (diagnosis_ready is handled the same way), which makes the client fetch it.
IssueNext ==
    \E type \in {"issue_updated", "fix_complete"} : SrvIssue(type)

\* The live channel's state machine, with the server's data at rest.
Next == SocketNext \/ LifeNext

Spec == Init /\ [][Next]_vars

\* A channel that connects once and, once lost, leaves the view polling
\* (Spec covers the reconnects).
ConnectOnce ==
    \/ \E s \in Socks : WsOpen(s)
    \/ \E s \in Socks : WsFail(s)
    \/ \E s \in Socks : WsClose(s)

\* The chat of a mounted view.
NextChat ==
    \/ ConnectOnce
    \/ HttpNext
    \/ \E s \in Socks : WsMessage(s)
    \/ ChatNext
    \/ IssueNext

SpecChat == InitToken /\ [][NextChat]_vars

\* The action log of a mounted view.
NextActions ==
    \/ ConnectOnce
    \/ \E r \in http : LoadOk(r)
    \/ \E r \in http, which \in LoadParts : LoadFail(r, which)
    \/ \E r \in http : SrvAnswer(r)
    \/ \E s \in Socks : WsMessage(s)
    \/ ActionNext

SpecActions == InitToken /\ [][NextActions]_vars

\* The initial fetch of a view whose issue keeps changing on the server.
NextLoad ==
    \/ \E r \in http : SrvAnswer(r)
    \/ \E r \in http : LoadOk(r)
    \/ \E r \in http, which \in LoadParts : LoadFail(r, which)
    \/ SrvMessage
    \/ SrvAction
    \/ \E k \in 1..MaxAct : SrvActionStep(k, "action", "")
    \/ \E a \in 1..MaxAtt : SrvAttachment(a)

SpecLoad == InitToken /\ [][NextLoad]_vars

\* The initial fetch of an issue that holds any messages.
NextScan ==
    \/ \E kind \in MsgKinds : SrvSays(kind)
    \/ \E r \in http : SrvAnswer(r)
    \/ \E r \in http : LoadOk(r)
    \/ \E r \in http, which \in LoadParts : LoadFail(r, which)

SpecScan == InitToken /\ [][NextScan]_vars

\* The chat of a view whose socket opens while the initial fetch is still
\* in flight, and whose polling does not get to tick.
NextLive ==
    \/ \E s \in Socks : WsOpen(s)
    \/ \E s \in Socks : WsMessage(s)
    \/ \E r \in http : SrvAnswer(r)
    \/ \E r \in http : LoadOk(r)
    \/ \E r \in http, which \in LoadParts : LoadFail(r, which)
    \/ ChatNext

SpecLive == InitToken /\ [][NextLive]_vars

\* The admin issues page.
NextAdmin ==
    \/ \E col \in AdminFilters : AdminSelect(col)
    \/ \E req \in admin.pending : AdminIssuesOk(req)
    \/ \E req \in admin.pending : AdminIssuesFail(req)

SpecAdmin == Init /\ [][NextAdmin]_vars

\* The action log of a view whose socket opens and stays open, with status
\* events of every form: naming a listed action, one not listed yet, or none.
NextEvents ==
    \/ \E s \in Socks : WsOpen(s)
    \/ \E s \in Socks : WsMessage(s)
    \/ \E r \in http, which \in LoadParts : LoadFail(r, which)
    \/ SrvAction
    \/ \E k \in 1..MaxAct, form \in {"action", "id", "none"}, detail \in ErrorDetails :
            SrvActionStep(k, form, detail)

SpecEvents == InitToken /\ [][NextEvents]_vars

\* Signing in and out and calling the API.
NextAuth ==
    \/ \E tok \in Tokens : LoginOk(tok)
    \/ Logout
    \/ ApiOk
    \/ \E status \in ErrorStatuses : ApiError(status)
    \/ CookieExpires
    \/ \E p \in {DashboardPath, LoginPath, <<"/", "x">>} : Navigate(p)

SpecAuth == Init /\ [][NextAuth]_vars

\* Requests arriving at the edge.
NextEdge == \E p \in Paths, ck \in CookieValues : EdgeRequest(p, ck)

SpecEdge == Init /\ [][NextEdge]_vars

\* The buttons of the issue screen and the chat input.
NextUser ==
    \/ \E kind \in UserKinds, id \in 1..MaxAtt : UserStart(kind, id)
    \/ \E kind \in UserKinds : UserOk(kind)
    \/ \E kind \in UserKinds, detail \in {"", "Invalid transition"} : UserFail(kind, detail)
    \/ SendMessage
    \/ \E r \in http : SrvPost(r)
    \/ \E r \in http : PostOk(r)
    \/ \E r \in http : PostFail(r)

SpecUser == InitToken /\ [][NextUser]_vars

\* One run of the site onboarding wizard.
NextWizard ==
    \/ \E input \in {"empty", "invalid", "ok"} : UrlNext(input)
    \/ CreateOk
    \/ \E detail \in {"", "Site already exists"} : CreateFail(detail)
    \/ \E m \in {"ssh", "plugin"} : ChooseMethod(m)
    \/ Back
    \/ \E filled \in BOOLEAN : SSHNext(filled)
    \/ SSHOk
    \/ \E detail \in {"", "Site already exists"} : SSHFail(detail)
    \/ PluginSkip
    \/ \E n \in 0..MaxCreds : MoreCredsNext(n)
    \/ CredOk
    \/ BatchDone
    \/ \E detail \in {"", "Site already exists"} : CredFail(detail)
    \/ OrphanSettles
    \/ Skip
    \/ HealthSettles

SpecWizard == Init /\ [][NextWizard]_vars

\* The issues page.
NextBoard ==
    \/ \E list \in IssueLists(board.issues) : IssuesLoaded(list)
    \/ \E s \in 0..MaxSiteIds : SetFilterSite(s)

SpecBoard == InitToken /\ [][NextBoard]_vars

\* The agent banner over time.
NextStall ==
    \/ StallTick
    \/ AgentSession
    \/ \E t \in 0..now : AgentFound(t)
    \/ AgentDone
    \/ AgentMessage

SpecStall == Init /\ [][NextStall]_vars

\* ------------------------------------------------------------------ properties

RECURSIVE Pow2(_)
Pow2(n) == IF n <= 0 THEN 1 ELSE 2 * Pow2(n - 1)

\* C1: in a mounted view, while the WebSocket is Connected (a socket is open:
\* its open event has fired and no error or close event since), no polling
\* interval is active, whichever run of the effect created the interval.
C1_NoPollingWhileConnected ==
    (Mounted /\ \E s \in Socks : sock[s].state = "open")
        => \A i \in 1..cur : ~eff[i].pollInterval

\* What does hold: an open socket's own run of the effect is not polling.
OwnRunNotPolling ==
    \A s \in Socks : sock[s].state = "open" => ~eff[sock[s].owner].pollInterval

\* C2: when a socket of a run that is not destroyed fails (error, then close)
\* or closes, then after the event that run polls and has a reconnect timer
\* pending whose delay is the reconnectDelay it had at the event.
C2_CloseStartsPollingAndSchedules ==
    [][\A s \in Socks :
        ((WsFail(s) \/ WsClose(s)) /\ ~eff[sock[s].owner].destroyed) =>
            LET i == sock[s].owner IN
            /\ eff'[i].pollInterval
            /\ eff'[i].reconnectTimeout = "pending"
            /\ eff'[i].timeoutMs = eff[i].reconnectDelay]_vars

\* The mounted run polls and waits for a reconnect with a delay that has
\* backed off from the floor.
C2_Witness ==
    /\ Mounted
    /\ eff[cur].pollInterval
    /\ eff[cur].reconnectTimeout = "pending"
    /\ eff[cur].timeoutMs = eff[cur].reconnectDelay
    /\ eff[cur].timeoutMs > ReconnectFloor

C4_BackoffDelay ==
    \A i \in 1..cur :
        /\ eff[i].reconnectDelay >= 1000 /\ eff[i].reconnectDelay <= 30000
        /\ eff[i].reconnectTimeout = "pending" =>
            /\ eff[i].attempts >= 1
            /\ eff[i].timeoutMs = Min(1000 * Pow2(eff[i].attempts - 1), 30000)

\* The sixth consecutive reconnect waits for the cap.
C4_Witness ==
    \E i \in 1..cur :
        /\ eff[i].reconnectTimeout = "pending"
        /\ eff[i].attempts = 6
        /\ eff[i].timeoutMs = 30000

\* C5: right after the teardown on unmount there is no connecting or open
\* socket, no pending reconnect timer and no active polling interval.
C5_TeardownLeavesNothing ==
    [][Unmount =>
        /\ \A s \in Socks : sock'[s].state \notin {"connecting", "open"}
        /\ \A i \in Insts : eff'[i].reconnectTimeout # "pending"
        /\ \A i \in Insts : ~eff'[i].pollInterval]_vars

\* The sockets that are connecting or open, and the runs of the effect with
\* a reconnect timer pending.
LiveSocks == {s \in Socks : sock[s].state \in {"connecting", "open"}}
PendingTimers == {i \in Insts : eff[i].reconnectTimeout = "pending"}

\* C11: while mounted there is never a connecting or open socket together
\* with a pending reconnect timer, never more than one connecting or open
\* socket, and never more than one pending reconnect timer.
C11_OneChannelState ==
    Mounted =>
        /\ ~(LiveSocks # {} /\ PendingTimers # {})
        /\ Cardinality(LiveSocks) <= 1
        /\ Cardinality(PendingTimers) <= 1

\* Reconnect-Scheduled after a lost connection: a timer, no socket.
C11_Witness ==
    /\ Mounted
    /\ PendingTimers = {cur}
    /\ LiveSocks = {}
    /\ eff[cur].attempts >= 2

\* C12: while mounted, whenever the current run of the effect has no open
\* socket (connecting, reconnect scheduled, or no token), it is polling.
C12_PollingUnlessConnected ==
    (Mounted /\ ~\E s \in Socks : sock[s].state = "open" /\ sock[s].owner = cur)
        => eff[cur].pollInterval

\* An open socket was closed cleanly: the view polls and waits to reconnect.
C12_Witness ==
    /\ Mounted
    /\ LiveSocks = {}
    /\ eff[cur].reconnectTimeout = "pending"
    /\ eff[cur].reconnectDelay = ReconnectFloor
    /\ eff[cur].attempts = 1
    /\ eff[cur].pollInterval

\* C26: once the unmount cleanup has run, no event or timer callback starts
\* a polling interval, schedules a reconnect timer or opens a socket.
C26_QuietAfterTeardown ==
    [][unmounted =>
        /\ \A i \in Insts : eff'[i].pollInterval => eff[i].pollInterval
        /\ \A i \in Insts : eff'[i].reconnectTimeout = "pending"
                                => eff[i].reconnectTimeout = "pending"
        /\ \A s \in Socks : sock'[s].state = "connecting"
                                => sock[s].state = "connecting"]_vars

\* C27: while mounted and not Connected, the current run of the effect has
\* a socket connecting or a reconnect timer pending.
C27_AlwaysReconnecting ==
    (Mounted /\ ~\E s \in Socks : sock[s].state = "open" /\ sock[s].owner = cur)
        => \/ \E s \in Socks : sock[s].state = "connecting" /\ sock[s].owner = cur
           \/ eff[cur].reconnectTimeout = "pending"

\* C28: no connecting or open socket belongs to a run of the effect whose
\* cleanup has run, so after the last cleanup none is left.
C28_CleanupClosesOwnSocket ==
    \A s \in Socks :
        sock[s].state \in {"connecting", "open"} => ~eff[sock[s].owner].destroyed

\* ---------------------------------------------------- properties of the data

\* The view shows what the server holds.
Consistent ==
    /\ view.messages = MsgList(srv.msgs)
    /\ view.actions = srv.acts
    /\ view.issue = srv.issue

\* The live channel of the mounted run is connected and idle, and no request
\* is in flight: unless the server changes or the channel drops, nothing will
\* change the view any more.
Quiescent ==
    /\ Mounted
    /\ \E s \in Socks : sock[s].state = "open" /\ sock[s].owner = cur
    /\ ~eff[cur].pollInterval
    /\ \A s \in Socks : wsq[s] = <<>>
    /\ http = {}

\* C6: eventual consistency. Once the channel is connected and nothing is in
\* flight the view can only stay as it is while the server is at rest, so it
\* must then equal the server's data.
C6_EventuallyConsistent == Quiescent => Consistent

\* C7 as stated: once the initial fetch has settled with a failure the
\* loading flag is still true.
C7_FailedLoadKeepsLoading == loadResult = "failed" => view.loadingInitial

\* C7: the loading flag is true at mount; a failed initial fetch leaves it as
\* it was, and a successful one clears it.
C7_LoadClearsOnlyOnSuccess ==
    /\ view.loadingInitial
    /\ [][\A r \in http :
            /\ (\E which \in LoadParts : LoadFail(r, which)) =>
                    view'.loadingInitial = view.loadingInitial
            /\ LoadOk(r) => ~view'.loadingInitial]_vars

\* The initial fetch has failed and the loading flag is still set.
C7_Witness == loadResult = "failed" /\ view.loadingInitial

Count(seq, x) == Cardinality({k \in 1..Len(seq) : seq[k] = x})

NoDuplicateMessages ==
    \A j, k \in 1..Len(view.messages) : j # k => view.messages[j] # view.messages[k]

\* C9: the messages list never holds an id twice, and right after the POST
\* response or a live chat_message event has been handled the message it
\* carries is in the list exactly once.
C9_MessagesDeduplicated ==
    /\ []NoDuplicateMessages
    /\ [][/\ \A r \in http : PostOk(r) => Count(view'.messages, r.id) = 1
          /\ \A s \in Socks : (WsMessage(s) /\ Head(wsq[s]).type = "chat_message")
                => Count(view'.messages, Head(wsq[s]).id) = 1]_vars

\* The user's message is already in the list (its live echo came first) while
\* the POST's response is still on its way.
C9_Witness ==
    \E r \in http :
        /\ r.kind = "post" /\ r.answered
        /\ Count(view.messages, r.id) = 1
        /\ Len(view.messages) = 2
        /\ \A s \in Socks : \A k \in 1..Len(wsq[s]) : wsq[s][k].id # r.id

NoDuplicateActions ==
    \A j, k \in 1..Len(view.actions) : j # k => view.actions[j].id # view.actions[k].id

\* C10: the actions list never holds an id twice; an agent_action event with
\* an id in the list replaces that entry where it is, and one with a new id is
\* appended.
C10_ActionsDeduplicated ==
    /\ []NoDuplicateActions
    /\ [][\A s \in Socks : (WsMessage(s) /\ Head(wsq[s]).type = "agent_action") =>
            LET ev  == Head(wsq[s])
                a   == [id |-> ev.id, status |-> ev.status, error |-> ev.error]
                old == view.actions
                new == view'.actions
            IN IF \E k \in 1..Len(old) : old[k].id = ev.id
               THEN /\ Len(new) = Len(old)
                    /\ \A k \in 1..Len(old) :
                        new[k] = IF old[k].id = ev.id THEN a ELSE old[k]
               ELSE new = Append(old, a)]_vars

\* Two actions are listed in the order of their creation and the first has
\* moved on from pending: it was updated where it is.
C10_Witness ==
    /\ Len(view.actions) = 2
    /\ view.actions[1].id = 1 /\ view.actions[1].status = "in_progress"
    /\ view.actions[2].id = 2
    /\ loadResult = "failed"

\* The event types that name an action by its id alone.
StatusEventTypes == {"action_started", "action_completed", "action_failed"}

\* The status each of them announces.
StatusOf(type) ==
    CASE type = "action_started" -> "in_progress"
      [] type = "action_completed" -> "completed"
      [] OTHER -> "failed"

\* C22: an action_started, action_completed or action_failed event changes
\* only the status (and for action_failed the error detail) of the action
\* whose id it names; every other action, the order and the length of the
\* list stay as they were, and with an unknown id or no id the list is
\* unchanged.
C22_StatusEventTouchesNamedActionOnly ==
    [][\A s \in Socks : (WsMessage(s) /\ Head(wsq[s]).type \in StatusEventTypes) =>
            LET ev  == Head(wsq[s])
                old == view.actions
                new == view'.actions
                named(k) == ev.id # 0 /\ old[k].id = ev.id
            IN /\ Len(new) = Len(old)
               /\ \A k \in 1..Len(old) :
                    /\ new[k].id = old[k].id
                    /\ ~named(k) => new[k] = old[k]
                    /\ named(k) => new[k].status = StatusOf(ev.type)
                    /\ (named(k) /\ ev.type = "action_failed") => new[k].error = ev.error
                    /\ (named(k) /\ ev.type # "action_failed") => new[k].error = old[k].error
               /\ (~\E k \in 1..Len(old) : named(k)) => new = old]_vars

\* Of two listed actions the first has failed with its error detail and the
\* second is still pending; no snapshot was ever applied.
C22_Witness ==
    /\ Len(view.actions) = 2
    /\ view.actions[1] = [id |-> 1, status |-> "failed", error |-> "timeout"]
    /\ view.actions[2] = [id |-> 2, status |-> "pending", error |-> ""]
    /\ loadResult = "failed"

\* The load request r settles in this step.
LoadSettles(r) == r \in http /\ r.kind = "load" /\ http' = http \ {r}

\* C23: the initial fetch applies the messages, actions and attachments
\* snapshots together, and only when all three requests succeeded; when one
\* of them fails it changes none of the three lists.
C23_LoadAllOrNothing ==
    [][\A r \in http : LoadSettles(r) =>
            IF loadResult' = "ok"
            THEN /\ view'.messages = MsgList(r.msgs)
                 /\ view'.actions = r.acts
                 /\ ui'.attachments = r.atts
            ELSE /\ view'.messages = view.messages
                 /\ view'.actions = view.actions
                 /\ ui'.attachments = ui.attachments]_vars

\* The initial fetch failed although the server had messages, actions and
\* attachments to give, and the three lists are as empty as at mount.
C23_Witness ==
    /\ loadResult = "failed"
    /\ srv.msgs > 0 /\ srv.acts # <<>> /\ srv.atts # {}
    /\ view.messages = <<>> /\ view.actions = <<>> /\ ui.attachments = {}

\* The positions in the response of the messages of agents that carry a
\* role, and the last five of them.
AgentPositions ==
    {k \in 1..Len(inbox) : inbox[k].sender_type = "agent" /\ inbox[k].agent_role # ""}

LastFive == {k \in AgentPositions : Cardinality({j \in AgentPositions : j > k}) < 5}

\* Position j holds a session start and no later one of the last five holds
\* a session start or a completion.
SessionMetFirst(j) ==
    /\ j \in LastFive
    /\ inbox[j].sessionKey # 0
    /\ \A k \in LastFive : k > j => (inbox[k].sessionKey = 0 /\ ~inbox[k].done)

\* C24: after a successful initial fetch the agent is active and working
\* exactly when, going through the last five agent messages that carry a
\* role from the newest to the oldest, a session start is met before any
\* completion; role, session key and last activity are those of that
\* message. (A message that is both counts as a session start.)
C24_ScanFindsWorkingAgent ==
    loadResult = "ok" =>
        IF \E j \in 1..Len(inbox) : SessionMetFirst(j)
        THEN \E j \in 1..Len(inbox) :
                /\ SessionMetFirst(j)
                /\ agentStatus = [active |-> TRUE, role |-> inbox[j].agent_role,
                                  sessionKey |-> inbox[j].sessionKey,
                                  lastActivity |-> inbox[j].created_at,
                                  status |-> "working"]
        ELSE ~agentStatus.active /\ agentStatus.status = "idle"

\* Of six messages the first is a user's and the second the session start:
\* the oldest of the last five agent messages, found behind four others.
C24_Witness ==
    /\ loadResult = "ok"
    /\ Len(inbox) = 6
    /\ inbox[1].sender_type = "user"
    /\ agentStatus.active /\ agentStatus.lastActivity = 2

\* C25: a message that a live chat_message event or a send-message response
\* has added to the list is not removed by the response of the initial
\* fetch. (Before the first snapshot is applied, every message of the list
\* was added by an event or by a send-message response.)
C25_LiveMessagesSurviveSnapshot ==
    [][\A r \in http : (LoadOk(r) /\ loadResult = "none") =>
            \A id \in 1..MaxMsg :
                HasMessage(view.messages, id) => HasMessage(view'.messages, id)]_vars

\* ------------------------------------------ properties of the sign-in state

\* A step of one of login, register, logout or an API response.
AuthStep ==
    \/ \E tok \in Tokens : LoginOk(tok)
    \/ Logout
    \/ ApiOk
    \/ \E status \in ErrorStatuses : ApiError(status)

\* C13: login, register, logout and API responses (401 included) keep the
\* cookie equal to local storage's entry: present together, same value.
C13_CookieMirrorsStorage ==
    [][(AuthStep /\ cookie = storage) => cookie' = storage']_vars

\* C14 as stated: a request whose path starts with /dashboard and carries no
\* cookie is redirected to /login with the path in 'from'; every other
\* request passes.
C14_RedirectsByPrefix ==
    mwResult.path # <<>> =>
        IF startsWith(mwResult.path, DashboardPath) /\ mwResult.cookie = 0
        THEN mwResult.res = [action |-> "redirect", to |-> LoginPath, from |-> mwResult.path]
        ELSE mwResult.res = NextResponse

\* C14: a request for /dashboard or a path under /dashboard/ whose cookie
\* is absent or empty is redirected to /login with the path in 'from';
\* every other request passes.
C14_RedirectsUnderDashboard ==
    mwResult.path # <<>> =>
        IF Matches(mwResult.path) /\ mwResult.cookie \in {-1, 0}
        THEN mwResult.res = [action |-> "redirect", to |-> LoginPath, from |-> mwResult.path]
        ELSE mwResult.res = NextResponse

\* /dashboard/x without a cookie was redirected.
C14_Witness ==
    /\ mwResult.path = <<"/", "d", "/", "x">>
    /\ mwResult.cookie = 0
    /\ mwResult.res.action = "redirect"
    /\ mwResult.res.from = mwResult.path

\* C15: an API error with status 401 removes the stored token and sends the
\* browser to /login; one with any other status leaves the stored token as
\* it was; in both cases the caller gets the error.
C15_Only401LogsOut ==
    [][\A status \in ErrorStatuses : ApiError(status) =>
        /\ apiResult'.rejected
        /\ status = 401 => (storage' = 0 /\ loc' = LoginPath)
        /\ status # 401 => storage' = storage]_vars

\* A signed-in browser got a 401.
C15_Witness ==
    /\ apiResult = [status |-> 401, rejected |-> TRUE]
    /\ storage = 0
    /\ cookie # 0
    /\ loc = LoginPath

\* ------------------------------------------ properties of the buttons

\* C16: every failed call behind a button of the issue screen, sendMessage
\* included, leaves an inline error message shown and its in-progress flag
\* reset.
C16_FailuresShowInlineError ==
    [][/\ \A kind \in UserKinds, detail \in {"", "Invalid transition"} :
            UserFail(kind, detail) => (ui'[ErrorOf(kind)] # "" /\ ~InProgress(ui', kind))
       /\ \A r \in http :
            (PostFail(r) /\ ~unmounted) =>
                /\ ~view'.sendingMsg
                /\ ui'.actionError # "" \/ ui'.attachmentError # ""]_vars

\* What holds for the calls other than sendMessage.
ButtonFailuresShowInlineError ==
    [][\A kind \in UserKinds, detail \in {"", "Invalid transition"} :
            UserFail(kind, detail) => (ui'[ErrorOf(kind)] # "" /\ ~InProgress(ui', kind))]_vars

\* ------------------------------------------ properties of the wizard

\* C17: a credential request is issued only after a site creation has
\* succeeded, and a health check is issued only when every credential
\* request of the run has settled.
C17_CreateThenCredentialsThenHealth ==
    [][/\ CredPending(wiz') > CredPending(wiz) => wiz.siteId >= 1
       /\ Len(wiz'.health) > Len(wiz.health) => CredPending(wiz) = 0]_vars

\* What holds of the order: credentials only after a site exists.
CredentialsAfterCreate ==
    [][CredPending(wiz') > CredPending(wiz) => wiz.siteId >= 1]_vars

\* A step whose request failed.
StepFails ==
    \E detail \in {"", "Site already exists"} :
        CreateFail(detail) \/ SSHFail(detail) \/ CredFail(detail)

\* C18: when the request of a wizard step fails the step does not change,
\* an error is shown and the loading flag is off, so the step's button is
\* enabled again.
C18_FailedStepStays ==
    [][StepFails => (wiz'.step = wiz.step /\ wiz'.error # "" /\ ~wiz'.loading)]_vars

\* Saving the extra credentials failed and the wizard is still on their step.
C18_Witness ==
    /\ wiz.step = "more_creds"
    /\ wiz.error = "Could not save some credentials"
    /\ ~wiz.loading
    /\ wiz.siteId = 1
    /\ wiz.health = <<>>

\* C29: one run of the wizard creates at most one site, whatever Continue
\* and Back steps the user takes.
C29_AtMostOneSite == wiz.siteId <= 1

\* ------------------------------------------ properties of the kanban board

InSeq(x, s) == \E k \in 1..Len(s) : s[k] = x

\* The columns of the board in which issue id appears, and how often in all.
ColumnsOf(id) ==
    {c \in 1..Len(KANBAN_COLUMNS) : InSeq(id, grouped(board, KANBAN_COLUMNS[c]))}

RECURSIVE SumCounts(_)
SumCounts(c) ==
    IF c = 0 THEN 0 ELSE Len(grouped(board, KANBAN_COLUMNS[c])) + SumCounts(c - 1)

PassesFilter(id) == board.filterSite = 0 \/ board.issues[id].site = board.filterSite

\* C20: an issue that passes the site filter and is not dismissed is in
\* exactly one column, that of its kanban_column (triage when absent) and
\* once; dismissed or filtered-out issues are in no column; the column
\* counts add up to the number of non-dismissed filtered issues.
C20_KanbanPartition ==
    /\ \A id \in 1..Len(board.issues) :
        LET i == board.issues[id] IN
        IF PassesFilter(id) /\ i.col # "dismissed"
        THEN /\ Cardinality(ColumnsOf(id)) = 1
             /\ \A c \in ColumnsOf(id) :
                    /\ KANBAN_COLUMNS[c] = (IF i.col = "null" THEN "triage" ELSE i.col)
                    /\ Count(grouped(board, KANBAN_COLUMNS[c]), id) = 1
        ELSE ColumnsOf(id) = {}
    /\ SumCounts(Len(KANBAN_COLUMNS)) =
            Cardinality({id \in 1..Len(board.issues) :
                            PassesFilter(id) /\ board.issues[id].col # "dismissed"})

\* A filtered board with an issue without a column and a dismissed one.
C20_Witness ==
    /\ board.filterSite = 1
    /\ Len(board.issues) = 2
    /\ board.issues[1] = [site |-> 1, col |-> "dismissed"]
    /\ board.issues[2] = [site |-> 1, col |-> "null"]
    /\ grouped(board, "triage") = <<2>>

\* ------------------------------------------ properties of the admin issues page

\* C30: once every list request in flight has settled (none of them having
\* failed), the issues shown are the response to the filter selected last,
\* whatever order the responses came in.
C30_ShowsLatestFilter ==
    (admin.pending = {} /\ admin.error = "") => admin.issues = admin.filterCol

\* ------------------------------------------ properties of the stall check

\* C21: an agent message that is neither a session start nor a completion,
\* received while the agent is active, sets lastActivity to the time of
\* receipt, so an agent is never flagged as stalled within 45 minutes of
\* its latest message.
C21_AgentMessageRefreshesActivity ==
    [][(AgentMessage /\ agentStatus.active) => agentStatus'.lastActivity = now]_vars

\* C19: a tick of the stall check sets the status to stalled exactly when
\* the agent is active and more than 45 minutes have passed since its last
\* activity, and otherwise leaves the agent status as it was.
C19_StalledAfterThreshold ==
    [][StallTick =>
        IF /\ agentStatus.active
           /\ agentStatus.lastActivity # -1
           /\ now' - agentStatus.lastActivity > 45
        THEN agentStatus' = [agentStatus EXCEPT !.status = "stalled"]
        ELSE agentStatus' = agentStatus]_vars

\* The tick at 46 minutes flagged an agent that the tick at 45 had not.
C19_Witness ==
    /\ agentStatus.active
    /\ agentStatus.status = "stalled"
    /\ now - agentStatus.lastActivity = 46

====
